---- MODULE Spec2Model ----
(***************************************************************************)
(* rseq: lazy infinite sequences (src/src/lib.rs).                         *)
(*                                                                         *)
(* An RSeq is a head plus a reference-counted closure `tail` that builds   *)
(* the next RSeq when invoked.  The model is a call-stack machine: every   *)
(* function of lib.rs is a frame kind, every call pushes a frame, every    *)
(* return pops it and leaves the value in `ret`.  A closure is the record  *)
(* of what it captured; invoking it (thunk) pushes the frame of the call   *)
(* its body makes.  The callers are straight-line test bodies (`prog`),    *)
(* one instruction per let-binding or method call.                         *)
(*                                                                         *)
(* Elements are mathematical integers (T is generic; the tests use i32     *)
(* far from its limits).  The count of take is a usize, kept as the signed *)
(* representative of its residue: -1 stands for usize::MAX.                *)
(***************************************************************************)
EXTENDS Integers, Sequences, FiniteSets

VARIABLES prog,    \* the caller's instructions
          ip,      \* index of the caller's current instruction
          busy,    \* the current instruction's call has been made
          vals,    \* vals[j]: <<node>> bound by instruction j, else <<>>
          outs,    \* outs[j]: the Vec returned by take instruction j
          advs,    \* advs[j]: thunk() calls take instruction j made itself
          iter,    \* RSeqIter.curr as <<node>>, <<>> before into_iter
          pulled,  \* the Options returned by next(), in order
          stack,   \* call stack, innermost frame last
          ret,     \* <<node>> handed back by the last return, else <<>>
          calls,   \* tail-generator invocations since the current instruction began
          status   \* "running", "panic_div" or "panic_sub"

vars == <<prog, ip, busy, vals, outs, advs, iter, pulled, stack, ret, calls, status>>

----------------------------------------------------------------------------
(* Bounds of the model *)

\* largest count handed to take, and number of iterator pulls
MaxN == 3

\* cap on simultaneously active filter calls (filter may never return)
MaxFilterDepth == 4

\* length of the longest run of rejected elements a filter is given
SkipRun == MaxFilterDepth - 1

\* a take whose range wrapped is followed for this many pushes only
MaxOut == MaxN + 2

----------------------------------------------------------------------------
(* Closures handed in by the callers *)

Abs(x) == IF x < 0 THEN -x ELSE x

\* the caller's closure named f applied to x
Apply(f, x) ==
    CASE f = "double" -> x * 2
      [] f = "square" -> x * x
      [] f = "dec"    -> x - 1
      [] f = "even"   -> x % 2 = 0
      [] f = "odd"    -> x % 2 # 0
      [] f = "lt2"    -> x < 2
      [] f = "ge2"    -> x >= 2
      [] f = "skip"   -> x >= SkipRun

\* integer division of the element type: truncates toward zero
TruncDiv(a, b) ==
    LET q == Abs(a) \div Abs(b)
    IN  IF (a < 0) # (b < 0) THEN -q ELSE q

Ops == {"add", "sub", "mul", "div"}

\* the element type's operator behind each impl
BinOp(op, a, b) ==
    CASE op = "add" -> a + b
      [] op = "sub" -> a - b
      [] op = "mul" -> a * b
      [] op = "div" -> TruncDiv(a, b)

----------------------------------------------------------------------------
(* Nodes and the closures they carry *)

\* RSeq::incr: the successor is computed at construction, the closure owns it
Incr(start) ==
    LET next == start + 1
    IN  [head |-> start, tail |-> [fn |-> "incr", next |-> next]]

\* RSeq::cnst
Cnst(v) == [head |-> v, tail |-> [fn |-> "cnst", v |-> v]]

\* RSeq::unfold: f(start) is computed at construction
Unfold(start, f) ==
    LET next == Apply(f, start)
    IN  [head |-> start, tail |-> [fn |-> "unfold", next |-> next, f |-> f]]

\* Clone: head copied, tail shared
Clone(node) == [head |-> node.head, tail |-> node.tail]

\* the node map returns once the input's tail has been obtained
MapNodeRaw(self, f, tail) ==
    [head |-> self.head, tail |-> [fn |-> "map", tail |-> tail, f |-> f]]

MapNode(self, f, tail) ==
    [head |-> Apply(f, self.head), tail |-> [fn |-> "map", tail |-> tail, f |-> f]]

\* the test filter makes on its head
FilterTestAll(self, f) == TRUE

FilterTest(self, f) == Apply(f, self.head)

\* the node filter returns when the head is accepted
FilterNode(self, f, tail) ==
    [head |-> self.head, tail |-> [fn |-> "filter", tail |-> tail, f |-> f]]

\* the node interleave returns: the roles are swapped in the closure
InterleaveNodeNoSwap(left, rclone, ltail) ==
    [head |-> left.head,
     tail |-> [fn |-> "interleave", left |-> ltail, right |-> rclone]]

InterleaveNode(left, rclone, ltail) ==
    [head |-> left.head,
     tail |-> [fn |-> "interleave", left |-> rclone, right |-> ltail]]

\* the node an arithmetic impl returns
ArithNode(op, self, rhs, ltail, rtail) ==
    [head |-> BinOp(op, self.head, rhs.head),
     tail |-> [fn |-> op, ltail |-> ltail, rtail |-> rtail]]

\* the frame of the call the body of closure c makes
ClosureCall(c) ==
    CASE c.fn = "incr"       -> [fn |-> "incr", start |-> c.next, pc |-> 0]
      [] c.fn = "cnst"       -> [fn |-> "cnst", v |-> c.v, pc |-> 0]
      [] c.fn = "unfold"     -> [fn |-> "unfold", start |-> c.next, f |-> c.f, pc |-> 0]
      [] c.fn = "map"        -> [fn |-> "map", self |-> c.tail, f |-> c.f, pc |-> 0]
      [] c.fn = "filter"     -> [fn |-> "filter", self |-> c.tail, f |-> c.f, pc |-> 0]
      [] c.fn = "interleave" -> [fn |-> "interleave", left |-> c.left,
                                 right |-> c.right, pc |-> 0]
      [] c.fn \in Ops        -> [fn |-> c.fn, self |-> c.ltail, rhs |-> c.rtail,
                                 pc |-> 0]

\* RSeq::thunk: invoke the node's tail
Thunk(node) == ClosureCall(node.tail)

----------------------------------------------------------------------------
(* The call stack *)

top == stack[Len(stack)]

Running == status = "running"

InFrame(fn, pc) == Running /\ stack # <<>> /\ top.fn = fn /\ top.pc = pc

WithTop(fr) == [stack EXCEPT ![Len(stack)] = fr]

\* return v to the caller
Return(v) ==
    /\ stack' = SubSeq(stack, 1, Len(stack) - 1)
    /\ ret' = <<v>>
    /\ calls' = calls

\* the top frame becomes fr and calls node.thunk()
CallThunk(fr, node) ==
    /\ stack' = Append(WithTop(fr), Thunk(node))
    /\ ret' = <<>>
    /\ calls' = calls + 1

\* number of filter calls that have not returned yet
ActiveFilterCalls == Cardinality({i \in 1..Len(stack) : stack[i].fn = "filter"})

caller == <<prog, ip, busy, vals, outs, advs, iter, pulled, status>>

----------------------------------------------------------------------------
(* usize arithmetic of take's range *)

\* n - 1 in a build without overflow checks: 0 - 1 wraps to usize::MAX,
\* whose two's-complement representative is -1
WrappingSub(a, b) == a - b

\* unsigned a < b on two's-complement representatives
UsizeLess(a, b) == IF (a < 0) = (b < 0) THEN a < b ELSE b < 0

\* the end of the range 0..n - 1
TakeRangeEndOffByOne(n) == WrappingSub(n, 0)

TakeRangeEnd(n) == WrappingSub(n, 1)

----------------------------------------------------------------------------
(* The callers: straight-line test bodies *)

Ins(op, a, f, x, y, n) == [op |-> op, a |-> a, f |-> f, x |-> x, y |-> y, n |-> n]

IncrI(s)          == Ins("incr", s, "", 0, 0, 0)
CnstI(v)          == Ins("cnst", v, "", 0, 0, 0)
UnfoldI(s, f)     == Ins("unfold", s, f, 0, 0, 0)
MapI(x, f)        == Ins("map", 0, f, x, 0, 0)
FilterI(x, f)     == Ins("filter", 0, f, x, 0, 0)
InterleaveI(x, y) == Ins("interleave", 0, "", x, y, 0)
OpI(op, x, y)     == Ins(op, 0, "", x, y, 0)
TakeI(x, n)       == Ins("take", 0, "", x, 0, n)
IntoIterI(x)      == Ins("into_iter", 0, "", x, 0, 0)
NextI             == Ins("next", 0, "", 0, 0, 0)

Leaves == {IncrI(0), IncrI(2), CnstI(1), CnstI(8),
           UnfoldI(2, "dec"), UnfoldI(1, "double")}

Preds == {"even", "odd", "lt2", "ge2", "skip"}

Combinators == {"map", "filter", "interleave"} \cup Ops

\* how many elements of the source are materialised beside a filter's n
Window(n) == 2 * n + 2

TakeProgs == {<<l, TakeI(1, n)>> : l \in Leaves, n \in 0..MaxN}

MapProgs ==
    {<<l, TakeI(1, n), MapI(1, f), TakeI(3, n)>> :
        l \in Leaves, f \in {"double", "square"}, n \in 1..MaxN}

FilterProgs ==
    {<<l, TakeI(1, Window(n)), FilterI(1, p), TakeI(3, n)>> :
        l \in {IncrI(0), IncrI(2), UnfoldI(1, "double")}, p \in Preds, n \in 1..MaxN}

InterleaveProgs ==
    {<<a, b, TakeI(1, n), TakeI(2, n), InterleaveI(1, 2), TakeI(5, n)>> :
        a \in {IncrI(0), CnstI(8)}, b \in {IncrI(2), UnfoldI(1, "double")},
        n \in 1..MaxN}
    \cup
    {<<IncrI(0), FilterI(1, "even"), IncrI(0), FilterI(3, "odd"),
       TakeI(2, n), TakeI(4, n), InterleaveI(2, 4), TakeI(7, n)>> : n \in 1..MaxN}

ArithProgs ==
    {<<a, b, TakeI(1, n), TakeI(2, n), OpI(op, 1, 2), TakeI(5, n)>> :
        a \in {CnstI(8), IncrI(2)}, b \in {CnstI(2), IncrI(2), UnfoldI(2, "dec")},
        op \in Ops, n \in 1..MaxN}

IterProgs ==
    {<<l, TakeI(1, k), IntoIterI(1)>> \o [j \in 1..k |-> NextI] :
        l \in Leaves, k \in 1..MaxN}
    \cup
    {<<IncrI(0), FilterI(1, p), TakeI(2, k), IntoIterI(2)>> \o [j \in 1..k |-> NextI] :
        p \in {"even", "odd"}, k \in 1..MaxN}

Programs == TakeProgs \cup MapProgs \cup FilterProgs \cup InterleaveProgs
            \cup ArithProgs \cup IterProgs

\* the frame of the call instruction ins makes
EntryFrame(ins) ==
    CASE ins.op = "incr"       -> [fn |-> "incr", start |-> ins.a, pc |-> 0]
      [] ins.op = "cnst"       -> [fn |-> "cnst", v |-> ins.a, pc |-> 0]
      [] ins.op = "unfold"     -> [fn |-> "unfold", start |-> ins.a, f |-> ins.f, pc |-> 0]
      [] ins.op = "map"        -> [fn |-> "map", self |-> vals[ins.x][1], f |-> ins.f,
                                   pc |-> 0]
      [] ins.op = "filter"     -> [fn |-> "filter", self |-> vals[ins.x][1], f |-> ins.f,
                                   pc |-> 0]
      [] ins.op = "interleave" -> [fn |-> "interleave", left |-> vals[ins.x][1],
                                   right |-> vals[ins.y][1], pc |-> 0]
      [] ins.op \in Ops        -> [fn |-> ins.op, self |-> vals[ins.x][1],
                                   rhs |-> vals[ins.y][1], pc |-> 0]
      [] ins.op = "take"       -> [fn |-> "take", self |-> vals[ins.x][1], n |-> ins.n,
                                   pc |-> 0, out |-> <<>>, curr |-> <<>>, count |-> 0,
                                   i |-> 0, adv |-> 0]
      [] ins.op = "next"       -> [fn |-> "next", pc |-> 0, out |-> 0]

Init ==
    /\ prog \in Programs
    /\ ip = 1
    /\ busy = FALSE
    /\ vals = [j \in 1..Len(prog) |-> <<>>]
    /\ outs = [j \in 1..Len(prog) |-> <<>>]
    /\ advs = [j \in 1..Len(prog) |-> 0]
    /\ iter = <<>>
    /\ pulled = <<>>
    /\ stack = <<>>
    /\ ret = <<>>
    /\ calls = 0
    /\ status = "running"

\* the caller makes the call of its current instruction
MainCall ==
    /\ Running /\ stack = <<>> /\ ~busy /\ ip <= Len(prog)
    /\ prog[ip].op # "into_iter"
    /\ stack' = <<EntryFrame(prog[ip])>>
    /\ busy' = TRUE
    /\ calls' = 0
    /\ ret' = <<>>
    /\ UNCHANGED <<prog, ip, vals, outs, advs, iter, pulled, status>>

\* the call returned: bind its node and go on
MainReturn ==
    /\ Running /\ stack = <<>> /\ busy
    /\ vals' = IF ret # <<>> THEN [vals EXCEPT ![ip] = ret] ELSE vals
    /\ ip' = ip + 1
    /\ busy' = FALSE
    /\ ret' = <<>>
    /\ UNCHANGED <<prog, outs, advs, iter, pulled, stack, calls, status>>

\* IntoIterator::into_iter / RSeqIter::new: the node becomes the cursor
IntoIter ==
    /\ Running /\ stack = <<>> /\ ~busy /\ ip <= Len(prog)
    /\ prog[ip].op = "into_iter"
    /\ iter' = vals[prog[ip].x]
    /\ ip' = ip + 1
    /\ calls' = 0
    /\ UNCHANGED <<prog, busy, vals, outs, advs, pulled, stack, ret, status>>

----------------------------------------------------------------------------
(* Constructors *)

IncrCall ==
    /\ InFrame("incr", 0)
    /\ Return(Incr(top.start))
    /\ UNCHANGED caller

CnstCall ==
    /\ InFrame("cnst", 0)
    /\ Return(Cnst(top.v))
    /\ UNCHANGED caller

UnfoldCall ==
    /\ InFrame("unfold", 0)
    /\ Return(Unfold(top.start, top.f))
    /\ UNCHANGED caller

----------------------------------------------------------------------------
(* Combinators *)

\* map: let tail = self.thunk()
MapThunk ==
    /\ InFrame("map", 0)
    /\ CallThunk([top EXCEPT !.pc = 1], top.self)
    /\ UNCHANGED caller

\* map: the RSeq literal
MapReturn ==
    /\ InFrame("map", 1) /\ ret # <<>>
    /\ Return(MapNode(top.self, top.f, ret[1]))
    /\ UNCHANGED caller

\* filter: let tail = self.thunk()
FilterThunk ==
    /\ InFrame("filter", 0)
    /\ CallThunk([top EXCEPT !.pc = 1], top.self)
    /\ UNCHANGED caller

\* filter: f(self.head) holds
FilterAccept ==
    /\ InFrame("filter", 1) /\ ret # <<>>
    /\ FilterTest(top.self, top.f)
    /\ Return(FilterNode(top.self, top.f, ret[1]))
    /\ UNCHANGED caller

\* filter: f(self.head) fails, tail.filter(f) is called; this call stays
\* active, holding tail, until that one returns
FilterReject ==
    /\ InFrame("filter", 1) /\ ret # <<>>
    /\ ~FilterTest(top.self, top.f)
    /\ ActiveFilterCalls < MaxFilterDepth
    /\ stack' = Append(WithTop([fn |-> "filter", self |-> top.self, f |-> top.f,
                                pc |-> 2, tail |-> ret[1]]),
                       [fn |-> "filter", self |-> ret[1], f |-> top.f, pc |-> 0])
    /\ ret' = <<>>
    /\ UNCHANGED calls
    /\ UNCHANGED caller

\* filter: the else branch hands on what tail.filter(f) returned
FilterUnwind ==
    /\ InFrame("filter", 2) /\ ret # <<>>
    /\ Return(ret[1])
    /\ UNCHANGED caller

\* interleave: let ltail = left.thunk()
InterleaveThunk ==
    /\ InFrame("interleave", 0)
    /\ CallThunk([top EXCEPT !.pc = 1], top.left)
    /\ UNCHANGED caller

\* interleave: let rclone = right.clone(), then the literal
InterleaveReturn ==
    /\ InFrame("interleave", 1) /\ ret # <<>>
    /\ LET ltail  == ret[1]
           rclone == Clone(top.right)
       IN  Return(InterleaveNode(top.left, rclone, ltail))
    /\ UNCHANGED caller

InArith(pc) == Running /\ stack # <<>> /\ top.fn \in Ops /\ top.pc = pc

\* add, mul, sub, div: let ltail = self.thunk()
ArithLeft ==
    /\ InArith(0)
    /\ CallThunk([top EXCEPT !.pc = 1], top.self)
    /\ UNCHANGED caller

\* add, mul, sub, div: let rtail = rhs.thunk()
ArithRight ==
    /\ InArith(1) /\ ret # <<>>
    /\ CallThunk([fn |-> top.fn, self |-> top.self, rhs |-> top.rhs, pc |-> 2,
                  ltail |-> ret[1]], top.rhs)
    /\ UNCHANGED caller

\* the element type's division faults on a zero divisor
DivFaults(op, rhs) == op = "div" /\ rhs.head = 0

\* add, mul, sub, div: the literal, its head computed now
ArithReturn ==
    /\ InArith(2) /\ ret # <<>>
    /\ ~DivFaults(top.fn, top.rhs)
    /\ Return(ArithNode(top.fn, top.self, top.rhs, top.ltail, ret[1]))
    /\ UNCHANGED caller

\* div: self.head / rhs.head with rhs.head = 0 panics
DivPanic ==
    /\ InArith(2) /\ ret # <<>>
    /\ DivFaults(top.fn, top.rhs)
    /\ status' = "panic_div"
    /\ UNCHANGED <<prog, ip, busy, vals, outs, advs, iter, pulled, stack, ret, calls>>

----------------------------------------------------------------------------
(* Materialisation *)

\* take: out.push(self.head); let mut curr = self.thunk()
TakeBegin ==
    /\ InFrame("take", 0)
    /\ CallThunk([top EXCEPT !.out = <<top.self.head>>, !.adv = 1, !.pc = 1], top.self)
    /\ UNCHANGED caller

\* take: curr is bound and the range 0..n - 1 is formed; with n = 0 this is
\* the build without overflow checks
TakeRange ==
    /\ InFrame("take", 1) /\ ret # <<>>
    /\ stack' = WithTop([top EXCEPT !.curr = ret, !.count = TakeRangeEnd(top.n),
                                    !.pc = 2])
    /\ ret' = <<>>
    /\ UNCHANGED calls
    /\ UNCHANGED caller

\* take: with n = 0 a build with overflow checks panics on n - 1
TakeOverflowPanic ==
    /\ InFrame("take", 1) /\ ret # <<>>
    /\ top.n = 0
    /\ status' = "panic_sub"
    /\ UNCHANGED <<prog, ip, busy, vals, outs, advs, iter, pulled, stack, ret, calls>>

\* take, loop body: out.push(curr.head); curr = curr.thunk()
TakeLoop ==
    /\ InFrame("take", 2)
    /\ UsizeLess(top.i, top.count)
    /\ top.n = 0 => Len(top.out) < MaxOut
    /\ CallThunk([top EXCEPT !.out = Append(top.out, top.curr[1].head),
                             !.adv = top.adv + 1, !.pc = 3], top.curr[1])
    /\ UNCHANGED caller

\* take, loop body: the assignment to curr, and the next index
TakeLoopRet ==
    /\ InFrame("take", 3) /\ ret # <<>>
    /\ stack' = WithTop([top EXCEPT !.curr = ret, !.i = top.i + 1, !.pc = 2])
    /\ ret' = <<>>
    /\ UNCHANGED calls
    /\ UNCHANGED caller

\* take: the range is exhausted, out is returned
TakeReturn ==
    /\ InFrame("take", 2)
    /\ ~UsizeLess(top.i, top.count)
    /\ outs' = [outs EXCEPT ![ip] = top.out]
    /\ advs' = [advs EXCEPT ![ip] = top.adv]
    /\ stack' = SubSeq(stack, 1, Len(stack) - 1)
    /\ ret' = <<>>
    /\ UNCHANGED <<prog, ip, busy, vals, iter, pulled, calls, status>>

\* next: let out = self.curr.head; self.curr.thunk() is called
NextBegin ==
    /\ InFrame("next", 0)
    /\ CallThunk([top EXCEPT !.out = iter[1].head, !.pc = 1], iter[1])
    /\ UNCHANGED caller

\* next with the cursor left where it was
NextReturnStale ==
    /\ InFrame("next", 1) /\ ret # <<>>
    /\ iter' = iter
    /\ pulled' = Append(pulled, [tag |-> "Some", val |-> top.out])
    /\ stack' = SubSeq(stack, 1, Len(stack) - 1)
    /\ ret' = <<>>
    /\ UNCHANGED <<prog, ip, busy, vals, outs, advs, calls, status>>

\* next: self.curr is assigned and Some(out) returned
NextReturn ==
    /\ InFrame("next", 1) /\ ret # <<>>
    /\ iter' = ret
    /\ pulled' = Append(pulled, [tag |-> "Some", val |-> top.out])
    /\ stack' = SubSeq(stack, 1, Len(stack) - 1)
    /\ ret' = <<>>
    /\ UNCHANGED <<prog, ip, busy, vals, outs, advs, calls, status>>

----------------------------------------------------------------------------

Next ==
    \/ MainCall \/ MainReturn \/ IntoIter
    \/ IncrCall \/ CnstCall \/ UnfoldCall
    \/ MapThunk \/ MapReturn
    \/ FilterThunk \/ FilterAccept \/ FilterReject \/ FilterUnwind
    \/ InterleaveThunk \/ InterleaveReturn
    \/ ArithLeft \/ ArithRight \/ ArithReturn \/ DivPanic
    \/ TakeBegin \/ TakeRange \/ TakeOverflowPanic
    \/ TakeLoop \/ TakeLoopRet \/ TakeReturn
    \/ NextBegin \/ NextReturn

Spec == Init /\ [][Next]_vars

\* the caller's body ran to its end
Done == Running /\ ip > Len(prog)

----------------------------------------------------------------------------
(* What the properties speak about *)

Idx == 1..Len(prog)

\* the take instructions that have returned
TakesDone == {j \in Idx : prog[j].op = "take" /\ j < ip}

\* the instruction that built the sequence instruction j works on
Src(j) == prog[prog[j].x]

RECURSIVE Iterate(_, _, _)
\* f applied i times to s
Iterate(f, i, s) == IF i = 0 THEN s ELSE Apply(f, Iterate(f, i - 1, s))

\* element i (0-indexed) of the sequence a constructor instruction denotes
LeafElem(ins, i) ==
    CASE ins.op = "incr"   -> ins.a + i
      [] ins.op = "cnst"   -> ins.a
      [] ins.op = "unfold" -> Iterate(ins.f, i, ins.a)

\* the elements of s that satisfy the caller's predicate p, in order
Satisfying(s, p) == LET P(x) == Apply(p, x) IN SelectSeq(s, P)

----------------------------------------------------------------------------
(* C1: whenever take(filter(seq, p), n) returns, it is the first n elements
   of seq that satisfy p, in seq's order: none skipped, none repeated, none
   that fails p.  seq's elements are those take(seq, Window(n)) returned. *)
C1_FilterTake ==
    \A j \in TakesDone : \A k \in TakesDone :
        (Src(j).op = "filter" /\ prog[k].x = Src(j).x
            /\ Len(Satisfying(outs[k], Src(j).f)) >= prog[j].n)
        => outs[j] = SubSeq(Satisfying(outs[k], Src(j).f), 1, prog[j].n)

\* filter skipped the two rejected elements 0 and 1 and take returned MaxN
C1_Witness ==
    /\ Done
    /\ prog = <<IncrI(0), TakeI(1, Window(MaxN)), FilterI(1, "ge2"), TakeI(3, MaxN)>>
    /\ outs[4] = [i \in 1..MaxN |-> i + 1]

(* C2: element i (0-indexed) of take(interleave(left, right), n) is element
   i/2 of left for even i and element i/2 of right for odd i, for every n. *)
C2_Interleave ==
    \A j \in TakesDone : \A kl \in TakesDone : \A kr \in TakesDone :
        (Src(j).op = "interleave" /\ prog[kl].x = Src(j).x /\ prog[kr].x = Src(j).y
            /\ prog[kl].n = prog[j].n /\ prog[kr].n = prog[j].n)
        => /\ Len(outs[j]) = prog[j].n
           /\ \A i \in 0..(prog[j].n - 1) :
                outs[j][i + 1] = IF i % 2 = 0 THEN outs[kl][(i \div 2) + 1]
                                              ELSE outs[kr][(i \div 2) + 1]

\* an odd-length prefix of interleave(incr(0), incr(2)) was taken
C2_Witness ==
    /\ Done
    /\ prog = <<IncrI(0), IncrI(2), TakeI(1, 3), TakeI(2, 3), InterleaveI(1, 2),
                TakeI(5, 3)>>
    /\ outs[6] = <<0, 2, 1>>

(* C3: for n >= 1 take(n) returns exactly n elements; on unfold(s0, step)
   element i is step applied i times to s0, on incr(s) it is s + i, on
   cnst(v) it is v. *)
C3_Take ==
    \A j \in TakesDone :
        /\ Len(outs[j]) = prog[j].n
        /\ Src(j).op \in {"incr", "cnst", "unfold"}
           => \A i \in 0..(prog[j].n - 1) : outs[j][i + 1] = LeafElem(Src(j), i)

\* take(unfold(1, double), 3) returned
C3_Witness ==
    /\ Done
    /\ prog = <<UnfoldI(1, "double"), TakeI(1, 3)>>
    /\ outs[2] = <<1, 2, 4>>

(* C4: take(op(a, b), n)[i] = op(take(a, n)[i], take(b, n)[i]) for i < n,
   and for divide without a fault whenever none of the first n elements of
   b is zero. *)
C4_Arith ==
    \A m \in Idx : \A j \in Idx : \A kl \in TakesDone : \A kr \in TakesDone :
        (prog[m].op \in Ops /\ prog[j].op = "take" /\ prog[j].x = m
            /\ prog[kl].x = prog[m].x /\ prog[kr].x = prog[m].y
            /\ prog[kl].n = prog[j].n /\ prog[kr].n = prog[j].n
            /\ \A i \in 1..prog[j].n : outs[kr][i] # 0)
        => /\ ~(status = "panic_div" /\ ip \in {m, j})
           /\ j \in TakesDone
              => outs[j] = [i \in 1..prog[j].n |->
                                BinOp(prog[m].op, outs[kl][i], outs[kr][i])]

(* C5: take(map(seq, f), n) is f applied to each element of take(seq, n),
   in the same order. *)
C5_MapTake ==
    \A j \in TakesDone : \A k \in TakesDone :
        (Src(j).op = "map" /\ prog[k].x = Src(j).x /\ prog[k].n = prog[j].n)
        => outs[j] = [i \in 1..prog[j].n |-> Apply(Src(j).f, outs[k][i])]

\* take(map(incr(2), double), MaxN) returned
C5_Witness ==
    /\ Done
    /\ prog = <<IncrI(2), TakeI(1, MaxN), MapI(1, "double"), TakeI(3, MaxN)>>
    /\ outs[4] = [i \in 1..MaxN |-> 2 * (i + 1)]

\* the into_iter instruction, if the caller has one
IterIdx == {m \in Idx : prog[m].op = "into_iter"}

(* C6: a pull never returns None; the k values pulled so far are take(start,
   k) of the node the iterator started from, and between pulls the cursor's
   head is the next element of it. *)
C6_Iterator ==
    \A m \in IterIdx : \A k \in TakesDone :
        prog[k].x = prog[m].x
        => /\ \A i \in 1..Len(pulled) :
                /\ pulled[i].tag = "Some"
                /\ i <= Len(outs[k]) => pulled[i].val = outs[k][i]
           /\ (m < ip /\ stack = <<>> /\ Len(pulled) < Len(outs[k]))
              => iter[1].head = outs[k][Len(pulled) + 1]

\* MaxN values were pulled from incr(0).filter(odd)
C6_Witness ==
    /\ Done
    /\ prog[2] = FilterI(1, "odd")
    /\ Len(pulled) = MaxN
    /\ pulled[2] = [tag |-> "Some", val |-> 3]

(* C7: take(node, 0) never advances the sequence, never holds a non-empty
   collection, and never computes n - 1 as a wrapped or faulting value. *)
C7_TakeZero ==
    \A i \in 1..Len(stack) :
        (stack[i].fn = "take" /\ stack[i].n = 0)
        => /\ stack[i].adv = 0
           /\ stack[i].out = <<>>
           /\ stack[i].count >= 0
           /\ status # "panic_sub"

(* C8: for n >= 1 a take that returned has invoked a tail-generator of its
   chain exactly n - 1 times. *)
C8_TakeAdvances ==
    \A j \in TakesDone : prog[j].n >= 1 => advs[j] = prog[j].n - 1

(* C9: while map, interleave, an arithmetic impl, or filter on a node whose
   head satisfies p, is building its result, no tail-generator has been
   invoked. *)
C9_LazyConstruction ==
    (/\ ip \in Idx
     /\ busy
     /\ prog[ip].op \in Combinators
     /\ prog[ip].op = "filter" => Apply(prog[ip].f, vals[prog[ip].x][1].head))
    => calls = 0

(* C10: when filter reaches an accepted element after a run of rejected
   ones, the number of active filter calls is below the cap of the model,
   however long the run was. *)
C10_FilterCallsBounded ==
    (InFrame("filter", 1) /\ FilterTest(top.self, top.f))
    => ActiveFilterCalls < MaxFilterDepth

====
